---- MODULE Spec2Model ----
(***************************************************************************)
(* Model of package gcs (src/gcs/gcs.go): Connect, createClient,          *)
(* setBucket and Upload, run by concurrent callers against one storage     *)
(* service.  Every action is one statement (or a run of statements that    *)
(* touch only the caller's locals) of the source; the storage service,     *)
(* the file system and the gzip encoder answer nondeterministically.       *)
(***************************************************************************)
EXTENDS Integers, Sequences, FiniteSets, TLC

\* ------------------------------------------------------------------ bounds
\* Operations started over one run of the process.
MaxCalls == 3
\* Longest file path of the object-naming specification.
MaxPathLen == 4

\* Callers (goroutines) of the package.
Procs == {1, 2}
\* Bucket names passed to Upload.
Buckets == {"b1", "b2"}
\* Characters of the bounded file paths.
Chars == {"a", ".", "/"}

\* ------------------------------------------------------------- file paths
\* Paths are sequences of one-character strings.
DataCsv == <<"d", "a", "t", "a", ".", "c", "s", "v">>
DirReportTxt == <<"d", "i", "r", "/", "r", "e", "p", "o", "r", "t", ".", "t", "x", "t">>
Readme == <<"R", "E", "A", "D", "M", "E">>
DirSlash == <<"d", "i", "r", "/">>
\* File paths passed to Upload by the callers of the main specification.
Files == {DirReportTxt, DirSlash}

GzipSuffix == <<".", "g", "z", "i", "p">>

\* Index of the last occurrence of c in s, 0 if there is none.
LastIndex(s, c) ==
  LET I == {i \in 1..Len(s) : s[i] = c}
  IN IF I = {} THEN 0 ELSE CHOOSE i \in I : \A j \in I : j <= i

RECURSIVE StripTrailingSlashes(_)
StripTrailingSlashes(s) ==
  IF Len(s) > 0 /\ s[Len(s)] = "/"
  THEN StripTrailingSlashes(SubSeq(s, 1, Len(s) - 1))
  ELSE s

\* path.Base: "" gives ".", trailing slashes are dropped, the part after the
\* last slash is kept, and what is then empty gives "/".
Base(p) ==
  IF p = <<>> THEN <<".">>
  ELSE LET s == StripTrailingSlashes(p)
           i == LastIndex(s, "/")
           t == IF i > 0 THEN SubSeq(s, i + 1, Len(s)) ELSE s
       IN IF t = <<>> THEN <<"/">> ELSE t

RECURSIVE ExtFrom(_, _)
ExtFrom(s, i) ==
  IF i < 1 \/ s[i] = "/" THEN <<>>
  ELSE IF s[i] = "." THEN SubSeq(s, i, Len(s))
  ELSE ExtFrom(s, i - 1)

\* An extension cut at the first dot instead of the last.
ExtFirstDot(s) ==
  LET I == {i \in 1..Len(s) : s[i] = "."}
  IN IF I = {} THEN <<>>
     ELSE SubSeq(s, CHOOSE k \in I : \A j \in I : k <= j, Len(s))

\* path.Ext: the suffix from the last dot of the last slash-separated element.
Ext(s) == ExtFrom(s, Len(s))

\* filename[0:len(filename)-len(ext)] + ".gzip"
ObjectName(filename, ext) ==
  SubSeq(filename, 1, Len(filename) - Len(ext)) \o GzipSuffix

\* ioutil.ReadFile can succeed only on the path of a regular file: a path that
\* is empty, ends in a slash, or whose last element is "." or ".." names none.
CanBeRegularFile(p) ==
  /\ p # <<>>
  /\ p[Len(p)] # "/"
  /\ LET i == LastIndex(p, "/")
         last == SubSeq(p, i + 1, Len(p))
     IN last \notin {<<".">>, <<".", ".">>}

\* --------------------------------------------------------------- errors
NoErr == "nil"
ErrBucketNotExist == "storage.ErrBucketNotExist"
\* Attrs errors other than ErrBucketNotExist.
AttrsErrs == {"attrs: permission denied", "attrs: network"}
ErrCreate == "create: failed"
ErrConflict == "create: conflict"
ErrRead == "read: failed"
ErrGzipWrite == "gzip: write failed"
ErrGzipClose == "gzip: close failed"
ErrWriterClose == "writer: close failed"

\* ---------------------------------------------------------------- state
VARIABLES
  env,        \* the two environment variables
  status,     \* "running", "exit1" (os.Exit(1)) or "panic"
  calls,      \* operations started so far
  last,       \* the caller that started the latest operation, 0 before any
  onceDone,   \* sync.Once: the done flag
  onceM,      \* sync.Once: the holder of its mutex, 0 when free
  singleton,  \* the package variable: 0 (nil) or an index of heap
  heap,       \* the gcsClient structs allocated so far
  nClients,   \* storage clients constructed by storage.NewClient
  exists,     \* service: the buckets that exist
  objects,    \* service: the objects written
  loc,        \* per caller: its position, arguments, locals and call log
  nm          \* the object-naming specification's state

vars == <<env, status, calls, last, onceDone, onceM, singleton, heap, nClients,
          exists, objects, loc, nm>>

\* A nil *storage.BucketHandle.
NilBucket == [c |-> 0, name |-> ""]
\* No storage.Writer.
NilWriter == [bucket |-> "", name |-> <<>>, contentType |-> "", contentEncoding |-> ""]
\* A gcsClient as createClient allocates it: only ctx set.
NewHandle == [projectID |-> "", bucket |-> NilBucket, client |-> 0]

IdleLoc ==
  [pc |-> "idle", op |-> "none", bucket |-> "", file |-> <<>>,
   projectID |-> "", gcs |-> 0, client |-> 0, bkt |-> NilBucket,
   err |-> NoErr, objectName |-> <<>>, wc |-> NilWriter, ret |-> "none",
   log |-> <<>>, bucket0 |-> NilBucket, exists0 |-> {}, objects0 |-> {},
   foreignBind |-> FALSE]

NmInit == [stage |-> "off", path |-> <<>>, filename |-> <<>>, ext |-> <<>>,
           objectName |-> <<>>]

\* The process before any call: nothing allocated, any set of buckets present.
InitMain ==
  /\ env \in [project : {"", "proj"}, credentials : {"", "cred.json"}]
  /\ status = "running"
  /\ calls = 0
  /\ last = 0
  /\ onceDone = 0
  /\ onceM = 0
  /\ singleton = 0
  /\ heap = <<>>
  /\ nClients = 0
  /\ exists \in SUBSET Buckets
  /\ objects = {}
  /\ loc = [p \in Procs |-> IdleLoc]

Init == InitMain /\ nm = NmInit

Running == status = "running"
At(p, l) == Running /\ loc[p].pc = l
Logged(p, e) == Append(loc[p].log, e)

\* ------------------------------------------------------------- Connect
\* A caller enters Connect().
CallConnect(p) ==
  /\ At(p, "idle")
  /\ calls < MaxCalls
  /\ calls' = calls + 1
  /\ last' = p
  /\ loc' = [loc EXCEPT ![p] = [IdleLoc EXCEPT !.pc = "c_env", !.op = "Connect"]]
  /\ UNCHANGED <<env, status, onceDone, onceM, singleton, heap, nClients,
                 exists, objects, nm>>

\* Lines 36-46: both variables must be set, or the process exits.
ConnectCheckEnv(p) ==
  /\ At(p, "c_env")
  /\ IF env.project = "" \/ env.credentials = ""
     THEN /\ status' = "exit1"
          /\ loc' = [loc EXCEPT ![p].pc = "exit"]
     ELSE /\ status' = status
          /\ loc' = [loc EXCEPT ![p].pc = "once_fast",
                                ![p].projectID = env.project]
  /\ UNCHANGED <<env, calls, last, onceDone, onceM, singleton, heap, nClients,
                 exists, objects, nm>>

\* once.Do, fast path: done already set.
OnceFast(p) ==
  /\ At(p, "once_fast")
  /\ loc' = [loc EXCEPT ![p].pc = IF onceDone = 1 THEN "cc_ret" ELSE "once_lock"]
  /\ UNCHANGED <<env, status, calls, last, onceDone, onceM, singleton, heap,
                 nClients, exists, objects, nm>>

\* A once.Do whose lock excludes nobody: a plain flag check.
OnceLockNoMutex(p) ==
  /\ At(p, "once_lock")
  /\ onceM' = p
  /\ loc' = [loc EXCEPT ![p].pc = IF onceDone = 0 THEN "once_f" ELSE "once_unlock"]
  /\ UNCHANGED <<env, status, calls, last, onceDone, singleton, heap, nClients,
                 exists, objects, nm>>

\* once.Do, slow path: take the mutex, then look at done again.
OnceLock(p) ==
  /\ At(p, "once_lock")
  /\ onceM = 0
  /\ onceM' = p
  /\ loc' = [loc EXCEPT ![p].pc = IF onceDone = 0 THEN "once_f" ELSE "once_unlock"]
  /\ UNCHANGED <<env, status, calls, last, onceDone, singleton, heap, nClients,
                 exists, objects, nm>>

\* Lines 62-64: the function passed to once.Do allocates the handle.
OnceF(p) ==
  /\ At(p, "once_f")
  /\ heap' = Append(heap, NewHandle)
  /\ singleton' = Len(heap) + 1
  /\ loc' = [loc EXCEPT ![p].pc = "once_store"]
  /\ UNCHANGED <<env, status, calls, last, onceDone, onceM, nClients, exists,
                 objects, nm>>

\* once.Do: done is stored after the function returned.
OnceStoreDone(p) ==
  /\ At(p, "once_store")
  /\ onceDone' = 1
  /\ loc' = [loc EXCEPT ![p].pc = "once_unlock"]
  /\ UNCHANGED <<env, status, calls, last, onceM, singleton, heap, nClients,
                 exists, objects, nm>>

OnceUnlock(p) ==
  /\ At(p, "once_unlock")
  /\ onceM' = 0
  /\ loc' = [loc EXCEPT ![p].pc = "cc_ret"]
  /\ UNCHANGED <<env, status, calls, last, onceDone, singleton, heap, nClients,
                 exists, objects, nm>>

\* Lines 66 and 48: createClient returns singleton, Connect keeps it in gcs.
CreateClientReturn(p) ==
  /\ At(p, "cc_ret")
  /\ loc' = [loc EXCEPT ![p].pc = "c_project", ![p].gcs = singleton]
  /\ UNCHANGED <<env, status, calls, last, onceDone, onceM, singleton, heap,
                 nClients, exists, objects, nm>>

\* Line 49: gcs.projectID = projectID.
ConnectSetProject(p) ==
  /\ At(p, "c_project")
  /\ heap' = [heap EXCEPT ![loc[p].gcs].projectID = loc[p].projectID]
  /\ loc' = [loc EXCEPT ![p].pc = "c_newclient"]
  /\ UNCHANGED <<env, status, calls, last, onceDone, onceM, singleton, nClients,
                 exists, objects, nm>>

\* Lines 50-54: storage.NewClient builds a new client, or fails and the
\* process exits.
ConnectNewClient(p) ==
  /\ At(p, "c_newclient")
  /\ \E ok \in BOOLEAN :
       IF ok
       THEN /\ nClients' = nClients + 1
            /\ status' = status
            /\ loc' = [loc EXCEPT ![p].pc = "c_setclient",
                                  ![p].client = nClients + 1]
       ELSE /\ nClients' = nClients
            /\ status' = "exit1"
            /\ loc' = [loc EXCEPT ![p].pc = "exit"]
  /\ UNCHANGED <<env, calls, last, onceDone, onceM, singleton, heap, exists,
                 objects, nm>>

\* Lines 55-57: gcs.client = client, and Connect returns.
ConnectSetClient(p) ==
  /\ At(p, "c_setclient")
  /\ heap' = [heap EXCEPT ![loc[p].gcs].client = loc[p].client]
  /\ loc' = [loc EXCEPT ![p].pc = "idle", ![p].ret = NoErr]
  /\ UNCHANGED <<env, status, calls, last, onceDone, onceM, singleton, nClients,
                 exists, objects, nm>>

\* -------------------------------------------------------------- Upload
\* A caller enters Upload(bucket, filename); the snapshots record what the
\* shared handle and the service held when the call began.
CallUpload(p) ==
  /\ At(p, "idle")
  /\ calls < MaxCalls
  /\ calls' = calls + 1
  /\ last' = p
  /\ \E b \in Buckets, f \in Files :
       loc' = [loc EXCEPT ![p] =
                 [IdleLoc EXCEPT !.pc = "sb_bucket", !.op = "Upload",
                                 !.bucket = b, !.file = f,
                                 !.bucket0 = IF singleton = 0 THEN NilBucket
                                             ELSE heap[singleton].bucket,
                                 !.exists0 = exists, !.objects0 = objects]]
  /\ UNCHANGED <<env, status, onceDone, onceM, singleton, heap, nClients,
                 exists, objects, nm>>

\* Line 72: bucket := singleton.client.Bucket(name).  A nil singleton is a
\* nil pointer dereference.
SetBucketHandle(p) ==
  /\ At(p, "sb_bucket")
  /\ IF singleton = 0
     THEN /\ status' = "panic"
          /\ loc' = [loc EXCEPT ![p].pc = "panic"]
     ELSE /\ status' = status
          /\ loc' = [loc EXCEPT ![p].pc = "sb_attrs",
                                ![p].bkt = [c |-> heap[singleton].client,
                                            name |-> loc[p].bucket]]
  /\ UNCHANGED <<env, calls, last, onceDone, onceM, singleton, heap, nClients,
                 exists, objects, nm>>

\* What bucket.Attrs can answer for a bucket name.
AttrsOutcomes(name) ==
  (IF name \in exists THEN {NoErr} ELSE {ErrBucketNotExist}) \cup AttrsErrs

\* A setBucket that creates the bucket on any Attrs error.
AfterAttrsCreateOnAnyErr(e) ==
  IF e = NoErr THEN "sb_bind" ELSE "sb_create"

\* A setBucket that binds only a bucket it has just created.
AfterAttrsNoBindExisting(e) ==
  IF e = NoErr THEN "up_check"
  ELSE IF e = ErrBucketNotExist THEN "sb_create"
  ELSE "up_check"

\* Lines 74-87: where setBucket goes after Attrs answered e.
AfterAttrs(e) ==
  IF e = NoErr THEN "sb_bind"
  ELSE IF e = ErrBucketNotExist THEN "sb_create"
  ELSE "up_check"

\* Lines 73-86: the existence check.  A handle made from a nil client is a
\* nil pointer dereference.
SetBucketAttrs(p) ==
  /\ At(p, "sb_attrs")
  /\ IF loc[p].bkt.c = 0
     THEN /\ status' = "panic"
          /\ loc' = [loc EXCEPT ![p].pc = "panic"]
     ELSE /\ status' = status
          /\ \E e \in AttrsOutcomes(loc[p].bkt.name) :
               loc' = [loc EXCEPT ![p].pc = AfterAttrs(e),
                                  ![p].err = e,
                                  ![p].log = Logged(p, <<"Attrs", e>>)]
  /\ UNCHANGED <<env, calls, last, onceDone, onceM, singleton, heap, nClients,
                 exists, objects, nm>>

\* What bucket.Create can answer for a bucket name.
CreateOutcomes(name) ==
  IF name \in exists THEN {ErrConflict} ELSE {NoErr, ErrCreate}

\* A setBucket that binds the bucket whether or not Create succeeded.
AfterCreateBindAnyway(e) == "sb_bind"

\* Lines 79-82: where setBucket goes after Create answered e.
AfterCreate(e) == IF e = NoErr THEN "sb_bind" ELSE "up_check"

\* Lines 77-82: bucket.Create under singleton.projectID.
SetBucketCreate(p) ==
  /\ At(p, "sb_create")
  /\ \E e \in CreateOutcomes(loc[p].bkt.name) :
       /\ exists' = IF e = NoErr THEN exists \cup {loc[p].bkt.name} ELSE exists
       /\ loc' = [loc EXCEPT ![p].pc = AfterCreate(e),
                             ![p].err = e,
                             ![p].log = Logged(p, <<"Create", e>>)]
  /\ UNCHANGED <<env, status, calls, last, onceDone, onceM, singleton, heap,
                 nClients, objects, nm>>

\* Callers whose own Upload is past setBucket and has not yet opened its writer.
HasBound(q) ==
  /\ loc[q].op = "Upload"
  /\ loc[q].pc \in {"up_check", "up_writer"}
  /\ loc[q].err = NoErr

\* Lines 88-89: singleton.bucket = bucket; return nil.  foreignBind marks the
\* other callers whose binding this one overwrites.
SetBucketBind(p) ==
  /\ At(p, "sb_bind")
  /\ heap' = [heap EXCEPT ![singleton].bucket = loc[p].bkt]
  /\ loc' = [q \in Procs |->
               IF q = p
               THEN [loc[p] EXCEPT !.pc = "up_check", !.err = NoErr,
                                   !.log = Logged(p, <<"Bind", loc[p].bkt.name>>)]
               ELSE IF HasBound(q) THEN [loc[q] EXCEPT !.foreignBind = TRUE]
               ELSE loc[q]]
  /\ UNCHANGED <<env, status, calls, last, onceDone, onceM, singleton, nClients,
                 exists, objects, nm>>

\* What ioutil.ReadFile can answer for a path.
ReadOutcomes(f) == IF CanBeRegularFile(f) THEN {NoErr, ErrRead} ELSE {ErrRead}

\* An object name derived without path.Base: the directories stay in it.
UploadObjectNameKeepDir(f) == ObjectName(f, Ext(f))

\* Lines 109-111: the object name of a file path.
UploadObjectName(f) ==
  LET filename == Base(f)
      ext == Ext(filename)
  IN ObjectName(filename, ext)

\* An Upload that goes on to open the writer although the read failed.
AfterReadIgnoreErr(e) == "up_writer"

\* Lines 104-107: where Upload goes after ReadFile answered e.
AfterRead(e) == IF e = NoErr THEN "up_writer" ELSE "idle"

\* Lines 97-112: Upload returns setBucket's error; otherwise it reads the
\* file, returns the read error, or derives the object name.
UploadReadFile(p) ==
  /\ At(p, "up_check")
  /\ IF loc[p].err # NoErr
     THEN loc' = [loc EXCEPT ![p].pc = "idle", ![p].ret = loc[p].err]
     ELSE \E e \in ReadOutcomes(loc[p].file) :
            loc' = [loc EXCEPT ![p].pc = AfterRead(e),
                               ![p].err = e,
                               ![p].ret = IF AfterRead(e) = "idle" THEN e ELSE "none",
                               ![p].objectName = IF e = NoErr
                                                 THEN UploadObjectName(loc[p].file)
                                                 ELSE <<>>,
                               ![p].log = Logged(p, <<"ReadFile", e>>)]
  /\ UNCHANGED <<env, status, calls, last, onceDone, onceM, singleton, heap,
                 nClients, exists, objects, nm>>

\* Lines 114-116: the writer is opened on singleton.bucket, whatever bucket
\* is bound at this moment, with the two fixed metadata fields.
UploadNewWriter(p) ==
  /\ At(p, "up_writer")
  /\ loc' = [loc EXCEPT ![p].pc = "up_zwrite",
                        ![p].wc = [bucket |-> heap[singleton].bucket.name,
                                   name |-> loc[p].objectName,
                                   contentType |-> "text/plain",
                                   contentEncoding |-> "gzip"],
                        ![p].log = Logged(p, <<"NewWriter", heap[singleton].bucket.name>>)]
  /\ UNCHANGED <<env, status, calls, last, onceDone, onceM, singleton, heap,
                 nClients, exists, objects, nm>>

\* Lines 119-124: zWriter.Write(data); its error is returned.
UploadGzipWrite(p) ==
  /\ At(p, "up_zwrite")
  /\ \E e \in {NoErr, ErrGzipWrite} :
       loc' = [loc EXCEPT ![p].pc = IF e = NoErr THEN "up_zclose" ELSE "idle",
                          ![p].err = e,
                          ![p].ret = IF e = NoErr THEN "none" ELSE e,
                          ![p].log = Logged(p, <<"gzip.Write", e>>)]
  /\ UNCHANGED <<env, status, calls, last, onceDone, onceM, singleton, heap,
                 nClients, exists, objects, nm>>

\* Line 125: zWriter.Close(); its result is dropped.
UploadGzipClose(p) ==
  /\ At(p, "up_zclose")
  /\ \E e \in {NoErr, ErrGzipClose} :
       loc' = [loc EXCEPT ![p].pc = "up_wclose",
                          ![p].log = Logged(p, <<"gzip.Close", e>>)]
  /\ UNCHANGED <<env, status, calls, last, onceDone, onceM, singleton, heap,
                 nClients, exists, objects, nm>>

\* Lines 128-133: wc.Close() finalizes the object, or its error is returned.
UploadWriterClose(p) ==
  /\ At(p, "up_wclose")
  /\ \E e \in {NoErr, ErrWriterClose} :
       /\ objects' = IF e = NoErr THEN objects \cup {loc[p].wc} ELSE objects
       /\ loc' = [loc EXCEPT ![p].pc = "idle",
                             ![p].err = e,
                             ![p].ret = e,
                             ![p].log = Logged(p, <<"wc.Close", e>>)]
  /\ UNCHANGED <<env, status, calls, last, onceDone, onceM, singleton, heap,
                 nClients, exists, nm>>

\* ------------------------------------------------------ object naming
\* Every path of at most MaxPathLen characters, and the named paths.
Paths == UNION {[1..k -> Chars] : k \in 0..MaxPathLen}
           \cup {DataCsv, DirReportTxt, Readme, DirSlash}

NameInit ==
  /\ InitMain
  /\ nm \in {[NmInit EXCEPT !.stage = "path", !.path = f] : f \in Paths}

\* Lines 103-107: Upload goes on to name the object only if the read succeeded.
NameReadFile ==
  /\ nm.stage = "path"
  /\ \E e \in ReadOutcomes(nm.path) :
       nm' = [nm EXCEPT !.stage = IF e = NoErr THEN "read" ELSE "readerr"]
  /\ UNCHANGED <<env, status, calls, last, onceDone, onceM, singleton, heap,
                 nClients, exists, objects, loc>>

\* Line 109: filename = path.Base(filename).
NameBase ==
  /\ nm.stage = "read"
  /\ nm' = [nm EXCEPT !.stage = "base", !.filename = Base(nm.path)]
  /\ UNCHANGED <<env, status, calls, last, onceDone, onceM, singleton, heap,
                 nClients, exists, objects, loc>>

\* Line 110: ext := path.Ext(filename).
NameExt ==
  /\ nm.stage = "base"
  /\ nm' = [nm EXCEPT !.stage = "ext", !.ext = Ext(nm.filename)]
  /\ UNCHANGED <<env, status, calls, last, onceDone, onceM, singleton, heap,
                 nClients, exists, objects, loc>>

\* Line 111: objectName := filename[0:len(filename)-len(ext)] + ".gzip".
NameObject ==
  /\ nm.stage = "ext"
  /\ nm' = [nm EXCEPT !.stage = "named",
                      !.objectName = ObjectName(nm.filename, nm.ext)]
  /\ UNCHANGED <<env, status, calls, last, onceDone, onceM, singleton, heap,
                 nClients, exists, objects, loc>>

NameNext == NameReadFile \/ NameBase \/ NameExt \/ NameObject

NameSpec == NameInit /\ [][NameNext]_vars

\* ------------------------------------------------------- specifications
\* The steps inside a call.
Body(p) ==
  \/ ConnectCheckEnv(p)
  \/ OnceFast(p)
  \/ OnceLock(p)
  \/ OnceF(p)
  \/ OnceStoreDone(p)
  \/ OnceUnlock(p)
  \/ CreateClientReturn(p)
  \/ ConnectSetProject(p)
  \/ ConnectNewClient(p)
  \/ ConnectSetClient(p)
  \/ SetBucketHandle(p)
  \/ SetBucketAttrs(p)
  \/ SetBucketCreate(p)
  \/ SetBucketBind(p)
  \/ UploadReadFile(p)
  \/ UploadNewWriter(p)
  \/ UploadGzipWrite(p)
  \/ UploadGzipClose(p)
  \/ UploadWriterClose(p)

\* Callers run concurrently: any caller may start a call or take its next step.
Next == \E p \in Procs : CallConnect(p) \/ CallUpload(p) \/ Body(p)

Spec == Init /\ [][Next]_vars

\* Calls run one after another: a call starts only while every other caller
\* is outside the package.
OthersIdle(p) == \A q \in Procs \ {p} : loc[q].pc = "idle"
SeqCallConnect(p) == OthersIdle(p) /\ CallConnect(p)
SeqCallUpload(p) == OthersIdle(p) /\ CallUpload(p)

SeqNext == \E p \in Procs : SeqCallConnect(p) \/ SeqCallUpload(p) \/ Body(p)

SeqSpec == Init /\ [][SeqNext]_vars

\* --------------------------------------------------------------- claims
InUpload(p) == loc[p].op = "Upload"
\* The latest call was p's Upload; it has returned and no call began since.
Ended(p) == InUpload(p) /\ loc[p].pc = "idle" /\ last = p
InLog(p, e) == \E i \in 1..Len(loc[p].log) : loc[p].log[i] = e
Did(p, what) == \E i \in 1..Len(loc[p].log) : loc[p].log[i][1] = what
Count(p, what) == Cardinality({i \in 1..Len(loc[p].log) : loc[p].log[i][1] = what})
\* setBucket has returned to Upload and Upload has not yet looked at its result.
SetBucketReturned(p) == InUpload(p) /\ loc[p].pc = "up_check" /\ Running

\* C1: over any sequence of Connect() calls at most one storage client is
\* ever constructed, and the client stored in the shared handle by the first
\* successful call is never replaced.
C1_OneStorageClient ==
  /\ nClients <= 1
  /\ singleton # 0 => heap[singleton].client <= 1

\* C2: under every interleaving of concurrent Connect() callers the shared
\* handle is allocated exactly once: at most one caller is inside the
\* once-only function, at most one handle is ever allocated, and every caller
\* that came back from createClient holds that one handle.
C2_OneHandle ==
  /\ Len(heap) <= 1
  /\ Cardinality({p \in Procs : loc[p].pc \in {"once_f", "once_store"}}) <= 1
  /\ \A p \in Procs :
       (loc[p].op = "Connect" /\ loc[p].pc \in {"c_project", "c_newclient", "c_setclient"})
         => (Len(heap) = 1 /\ singleton = 1 /\ loc[p].gcs = singleton)

\* Two concurrent Connect() callers are both back from createClient.
C2_Witness ==
  /\ \A p \in Procs : loc[p].op = "Connect" /\ loc[p].pc = "c_project"
  /\ Len(heap) = 1

\* C3: with calls run one after another, a setBucket(name) that finds the
\* bucket absent issues exactly one creation call and, when it succeeds,
\* binds the bucket; a call begun when the bucket exists issues no creation
\* call; no call issues more than one.
C3_CreateOnce ==
  \A p \in Procs :
    /\ InUpload(p) => Count(p, "Create") <= 1
    /\ (InUpload(p) /\ loc[p].bucket \in loc[p].exists0) => ~Did(p, "Create")
    /\ (SetBucketReturned(p) /\ InLog(p, <<"Attrs", ErrBucketNotExist>>))
         => /\ loc[p].bucket \notin loc[p].exists0
            /\ Count(p, "Create") = 1
            /\ InLog(p, <<"Create", NoErr>>)
                 => /\ loc[p].log[Len(loc[p].log)] = <<"Bind", loc[p].bucket>>
                    /\ heap[singleton].bucket.name = loc[p].bucket
                    /\ loc[p].bucket \in exists
                    /\ loc[p].err = NoErr

\* One call created bucket b1 and a later call with the same name found it
\* and bound it without creating it.
C3_Witness ==
  /\ InUpload(1) /\ loc[1].pc = "idle" /\ loc[1].bucket = "b1"
  /\ InLog(1, <<"Create", NoErr>>)
  /\ InUpload(2) /\ loc[2].bucket = "b1" /\ "b1" \in loc[2].exists0
  /\ InLog(2, <<"Attrs", NoErr>>) /\ InLog(2, <<"Bind", "b1">>)
  /\ ~Did(2, "Create")

\* C4: with calls run one after another, when the existence check fails with
\* an error other than ErrBucketNotExist, setBucket returns that error,
\* issues no creation call and leaves the bound bucket as it was; a failed
\* creation call returns its error and binds nothing; Upload returns the
\* same error.
C4_ErrorsLeaveBinding ==
  \A p \in Procs :
    /\ (SetBucketReturned(p) /\ Len(loc[p].log) >= 1 /\ loc[p].log[1][2] \in AttrsErrs)
         => /\ loc[p].err = loc[p].log[1][2]
            /\ Len(loc[p].log) = 1
            /\ heap[singleton].bucket = loc[p].bucket0
    /\ (SetBucketReturned(p) /\ Did(p, "Create") /\ ~InLog(p, <<"Create", NoErr>>))
         => /\ loc[p].err \in {ErrCreate, ErrConflict}
            /\ InLog(p, <<"Create", loc[p].err>>)
            /\ ~Did(p, "Bind")
            /\ heap[singleton].bucket = loc[p].bucket0
    /\ (Ended(p) /\ ~Did(p, "Bind"))
         => /\ loc[p].ret = loc[p].log[Len(loc[p].log)][2]
            /\ loc[p].ret # NoErr
            /\ heap[singleton].bucket = loc[p].bucket0

\* The existence check of b2 failed on a permission error while b1, bound by
\* an earlier call, stays bound.
C4_Witness ==
  \E p \in Procs :
    /\ SetBucketReturned(p)
    /\ loc[p].bucket = "b2"
    /\ loc[p].log = << <<"Attrs", "attrs: permission denied">> >>
    /\ loc[p].bucket0.name = "b1"
    /\ heap[singleton].bucket.name = "b1"

\* C5: Upload returns a non-nil error when closing the gzip encoder fails and
\* when closing the object write stream fails; it returns nil only when both
\* closes succeeded.
C5_BothClosesChecked ==
  \A p \in Procs :
    Ended(p) =>
      /\ InLog(p, <<"gzip.Close", ErrGzipClose>>) => loc[p].ret # NoErr
      /\ InLog(p, <<"wc.Close", ErrWriterClose>>) => loc[p].ret # NoErr
      /\ loc[p].ret = NoErr
           => (InLog(p, <<"gzip.Close", NoErr>>) /\ InLog(p, <<"wc.Close", NoErr>>))

\* C6: an Upload call made in any reachable state ends by returning nil or an
\* error, never by a crash or a process exit; only Connect() terminates the
\* process.
C6_UploadNeverCrashes ==
  /\ \A p \in Procs : InUpload(p) => loc[p].pc \notin {"panic", "exit"}
  /\ ~Running => \E p \in Procs : loc[p].op = "Connect" /\ loc[p].pc = "exit"

\* C7: with calls run one after another, an Upload whose file cannot be read
\* returns the read error, opens no write stream and creates no object; all
\* it has changed is what bucket resolution changed: the bucket is bound, and
\* was created if it did not exist.
C7_ReadFailure ==
  \A p \in Procs :
    (InUpload(p) /\ InLog(p, <<"ReadFile", ErrRead>>))
      => /\ loc[p].pc = "idle"
         /\ loc[p].ret = ErrRead
         /\ ~Did(p, "NewWriter")
         /\ loc[p].wc = NilWriter
         /\ loc[p].log[Len(loc[p].log)] = <<"ReadFile", ErrRead>>
         /\ Ended(p)
              => /\ objects = loc[p].objects0
                 /\ heap[singleton].bucket.name = loc[p].bucket
                 /\ exists = loc[p].exists0 \cup
                      (IF InLog(p, <<"Create", NoErr>>) THEN {loc[p].bucket} ELSE {})

\* An Upload to a bucket that did not exist created and bound it, and then
\* failed to read its file.
C7_Witness ==
  \E p \in Procs :
    /\ Ended(p)
    /\ loc[p].file = DirSlash
    /\ InLog(p, <<"Create", NoErr>>)
    /\ InLog(p, <<"ReadFile", ErrRead>>)
    /\ loc[p].bucket \in exists \ loc[p].exists0

NoSlash(s) == \A i \in 1..Len(s) : s[i] # "/"
NoDot(s) == \A i \in 1..Len(s) : s[i] # "."
\* name is path's last slash-separated element, cut before its last dot (whole
\* if it has none), followed by ".gzip".
NamedAfter(path, name) ==
  \E i \in 0..Len(path) : \E j \in i..Len(path) :
    LET stem == SubSeq(path, i + 1, j)
        ext == SubSeq(path, j + 1, Len(path))
    IN /\ i = 0 \/ path[i] = "/"
       /\ NoSlash(stem \o ext)
       /\ \/ ext = <<>> /\ NoDot(stem)
          \/ ext # <<>> /\ ext[1] = "." /\ NoDot(Tail(ext))
       /\ name = stem \o GzipSuffix

\* C8: the object name Upload computes for a file path is the path's base
\* name without its final extension, followed by ".gzip": "data.csv" gives
\* "data.gzip", "dir/report.txt" gives "report.gzip", "README" gives
\* "README.gzip"; it holds no directory separator and ends in ".gzip".
C8_ObjectName ==
  nm.stage = "named" =>
    /\ NamedAfter(nm.path, nm.objectName)
    /\ NoSlash(nm.objectName)
    /\ Len(nm.objectName) >= Len(GzipSuffix)
    /\ SubSeq(nm.objectName, Len(nm.objectName) - Len(GzipSuffix) + 1,
              Len(nm.objectName)) = GzipSuffix
    /\ nm.path = DataCsv => nm.objectName = <<"d", "a", "t", "a">> \o GzipSuffix
    /\ nm.path = DirReportTxt
         => nm.objectName = <<"r", "e", "p", "o", "r", "t">> \o GzipSuffix
    /\ nm.path = Readme => nm.objectName = Readme \o GzipSuffix

\* A path with a directory and two dots has been named.
C8_Witness ==
  /\ nm.stage = "named"
  /\ nm.path = <<"/", ".", "a", ".">>
  /\ nm.objectName = <<".", "a">> \o GzipSuffix

AllOk(p) ==
  \A i \in 1..Len(loc[p].log) :
    loc[p].log[i][1] \in {"Create", "ReadFile", "gzip.Write", "gzip.Close", "wc.Close"}
      => loc[p].log[i][2] = NoErr

\* C9: with calls run one after another, an Upload(b, f) of a readable file to
\* a bucket that does not exist, with no failure of the service, creates b,
\* binds it, then writes exactly one object in b, named after f, with content
\* type "text/plain" and content encoding "gzip", closing the gzip encoder
\* before the write stream, and returns nil; no call opens its writer before
\* it bound its bucket, and every object ever written carries the two fixed
\* metadata values and lies in a bucket that exists.
C9_UploadToNewBucket ==
  /\ \A p \in Procs :
       (Ended(p) /\ loc[p].bucket \notin loc[p].exists0 /\ AllOk(p)
          /\ InLog(p, <<"Attrs", ErrBucketNotExist>>))
         => /\ loc[p].ret = NoErr
            /\ loc[p].log = << <<"Attrs", ErrBucketNotExist>>, <<"Create", NoErr>>,
                               <<"Bind", loc[p].bucket>>, <<"ReadFile", NoErr>>,
                               <<"NewWriter", loc[p].bucket>>, <<"gzip.Write", NoErr>>,
                               <<"gzip.Close", NoErr>>, <<"wc.Close", NoErr>> >>
            /\ loc[p].bucket \in exists
            /\ \E o \in objects :
                 /\ objects = loc[p].objects0 \cup {o}
                 /\ o.bucket = loc[p].bucket
                 /\ NamedAfter(loc[p].file, o.name)
                 /\ o.contentType = "text/plain"
                 /\ o.contentEncoding = "gzip"
  /\ \A p \in Procs : \A i \in 1..Len(loc[p].log) :
       loc[p].log[i][1] = "NewWriter"
         => \E j \in 1..(i - 1) : loc[p].log[j][1] = "Bind"
  /\ \A o \in objects :
       /\ o.contentType = "text/plain"
       /\ o.contentEncoding = "gzip"
       /\ o.bucket \in exists

\* Upload("b1", "dir/report.txt") to an absent bucket b1 has returned nil and
\* left the object report.gzip there.
C9_Witness ==
  \E p \in Procs :
    /\ Ended(p)
    /\ loc[p].bucket = "b1" /\ "b1" \notin loc[p].exists0
    /\ loc[p].file = DirReportTxt
    /\ loc[p].ret = NoErr
    /\ InLog(p, <<"Create", NoErr>>)
    /\ [bucket |-> "b1", name |-> <<"r", "e", "p", "o", "r", "t">> \o GzipSuffix,
        contentType |-> "text/plain", contentEncoding |-> "gzip"] \in objects

\* C10: every Upload(b, f) that opens an object write stream opens it on
\* bucket b, under every interleaving of concurrent Upload calls.
C10_WriterOnOwnBucket ==
  \A p \in Procs :
    InUpload(p) => \A i \in 1..Len(loc[p].log) :
      loc[p].log[i][1] = "NewWriter" => loc[p].log[i][2] = loc[p].bucket

\* C10, amended: an Upload(b, f) that opens an object write stream opens it on
\* bucket b whenever no other call bound the shared bucket field between this
\* call's setBucket and its opening of the stream, as is the case when calls
\* run one after another; in every case it opens it on a bucket some call bound.
C10_WriterOnLastBound ==
  \A p \in Procs :
    InUpload(p) => \A i \in 1..Len(loc[p].log) :
      loc[p].log[i][1] = "NewWriter"
        => /\ ~loc[p].foreignBind => loc[p].log[i][2] = loc[p].bucket
           /\ loc[p].log[i][2] \in Buckets

\* Two Upload calls with different bucket names overlap, and each has opened
\* its writer on its own bucket.
C10_Witness ==
  /\ loc[1].pc = "up_zwrite" /\ loc[2].pc = "up_zwrite"
  /\ loc[1].bucket = "b1" /\ loc[2].bucket = "b2"
  /\ loc[1].wc.bucket = "b1" /\ loc[2].wc.bucket = "b2"

====
